---- MODULE Spec2Model ----
(***************************************************************************)
(* Model of the outpainting batch runner (app.py): the interactive prompt  *)
(* of ask_user, the pipeline of image_processing (validate, normalize      *)
(* source and mask, remote edit request, download/resize loop) and the     *)
(* files and folders it reads and writes.                                  *)
(***************************************************************************)
EXTENDS Integers, Sequences, FiniteSets, TLC

VARIABLES
    api_key,      \* openai.api_key, read once from the environment (app.py:23)
    number_of_images, \* config["number_of_images"] (app.py:15)
    fs,           \* files on disk: path -> file
    dirs,         \* folders that exist
    pc,           \* control position of the single thread
    answer,       \* the raw line last read by input() in ask_user
    status,       \* state of the current/last run of image_processing
    images_data,  \* local of image_processing: response["data"]
    idx,          \* loop index of enumerate(images_data)
    trace,        \* the steps the current run has performed, in order
    runs          \* number of runs started in this invocation

vars == <<api_key, number_of_images, fs, dirs, pc, answer, status,
          images_data, idx, trace, runs>>

----------------------------------------------------------------------------
(* Bounds of the model *)

\* largest configured number of requested variants explored
MaxN == 2
\* largest number of 'y' answers explored in one invocation
MaxRuns == 2

----------------------------------------------------------------------------
(* Configuration (app.py:12-20) *)

config ==
    [src_image_name   |-> "src.png",
     mask_image_name  |-> "mask.png",
     src_folder_path  |-> "./src",
     rgba_folder_path |-> "./rgba",
     dest_folder_path |-> "./dest"]

SrcPath  == config.src_folder_path \o "/" \o config.src_image_name
MaskPath == config.src_folder_path \o "/" \o config.mask_image_name
\* app.py:99-100: normalized copies, prefixed with an underscore
RgbaSrcPath  == config.rgba_folder_path \o "/_" \o config.src_image_name
RgbaMaskPath == config.rgba_folder_path \o "/_" \o config.mask_image_name

\* a per-index file name, which the code does not use
OutputFilename_perIndex ==
    config.dest_folder_path \o "/outputimage" \o ToString(idx) \o ".png"

\* app.py:107: one fixed name, computed once before the loop
OutputFilename == config.dest_folder_path \o "/outputimage.png"

\* the target resolution passed to resize_image, transposed
TargetSize_swapped == <<1024, 2048>>

\* app.py:114: resize_image(output_filename, 2048, 1024)
TargetSize == <<2048, 1024>>

----------------------------------------------------------------------------
(* Files *)

\* an image file PIL can open
Img(size, mode, content, stretched) ==
    [kind |-> "image", size |-> size, mode |-> mode,
     content |-> content, stretched |-> stretched]

\* a file that is not a readable image (arbitrary or truncated bytes)
Bytes(content) ==
    [kind |-> "bytes", size |-> <<0, 0>>, mode |-> "none",
     content |-> content, stretched |-> FALSE]

\* open(filename, 'wb') / img.save(path): create or overwrite
WriteFile(f, p, file) == (p :> file) @@ f

\* img.convert("RGBA") (app.py:29): same pixels' origin and size, 4 channels
ConvertRGBA(img) == [img EXCEPT !.mode = "RGBA"]

\* img.resize((width, height)) (app.py:86): stretch to exactly that size
Resize(img, size) == [img EXCEPT !.size = size, !.stretched = TRUE]

----------------------------------------------------------------------------
(* The prompt: input(...).strip().lower() *)

Whitespace == {" ", "\t"}

RECURSIVE LStrip(_)
LStrip(s) ==
    IF s # <<>> /\ Head(s) \in Whitespace THEN LStrip(Tail(s)) ELSE s

RECURSIVE RStrip(_)
RStrip(s) ==
    IF s # <<>> /\ s[Len(s)] \in Whitespace
    THEN RStrip(SubSeq(s, 1, Len(s) - 1)) ELSE s

\* str.strip(): drop leading and trailing whitespace
Strip(s) == LStrip(RStrip(s))

LowerChar(c) ==
    CASE c = "Y" -> "y"
      [] c = "N" -> "n"
      [] c = "E" -> "e"
      [] c = "S" -> "s"
      [] OTHER -> c

\* str.lower()
Lower(s) == [i \in 1..Len(s) |-> LowerChar(s[i])]

\* a comparison that forgets to lower-case
Normalize_noLower(s) == Strip(s)

\* app.py:122
Normalize(s) == Lower(Strip(s))

\* the lines a user may type, as sequences of characters
Answers ==
    { <<"y">>, <<" ", "Y", "\t">>,
      <<"n">>, <<>>, <<"y", "e", "s">>, <<"N", " ">> }

----------------------------------------------------------------------------
(* Exceptions and the top-level handler of image_processing *)

\* the exception classes the steps raise; all derive from Exception
ExceptionClasses ==
    {"ValueError", "UnidentifiedImageError", "OSError", "OpenAIError",
     "HTTPError"}

\* a handler that names one class only
Caught_onlyValueError(e) == e = "ValueError"

\* app.py:116: except Exception catches every class above
Caught(e) == e \in ExceptionClasses

\* a handler that starts the pipeline over
OnError_retry(e) == [pc |-> "validate", status |-> "Failed"]

\* app.py:116-118: print the error and return to the caller (ask_user);
\* an exception the handler does not catch would leave ask_user as well
OnError(e) ==
    IF Caught(e) THEN [pc |-> "ask", status |-> "Failed"]
                 ELSE [pc |-> "crashed", status |-> status]

Abort(e) ==
    LET o == OnError(e) IN pc' = o.pc /\ status' = o.status

----------------------------------------------------------------------------
(* The order of the statements of image_processing *)

\* the resize repeated instead of moving on to the next record
Successor_resizeAgain(step) ==
    CASE step = "validate"     -> "convert_src"
      [] step = "convert_src"  -> "convert_mask"
      [] step = "convert_mask" -> "invoke"
      [] step = "invoke"       -> "loop"
      [] step = "download"     -> "resize"
      [] step = "resize"       -> "resize"

\* the mask's normalization left out
Successor_skipMask(step) ==
    CASE step = "validate"     -> "convert_src"
      [] step = "convert_src"  -> "invoke"
      [] step = "convert_mask" -> "invoke"
      [] step = "invoke"       -> "loop"
      [] step = "download"     -> "resize"
      [] step = "resize"       -> "loop"

\* app.py:96-114: the statement that follows a step that succeeded
Successor(step) ==
    CASE step = "validate"     -> "convert_src"
      [] step = "convert_src"  -> "convert_mask"
      [] step = "convert_mask" -> "invoke"
      [] step = "invoke"       -> "loop"
      [] step = "download"     -> "resize"
      [] step = "resize"       -> "loop"

\* a loop that does not move to the next result
NextIdx_stuck(i) == i

\* app.py:109: enumerate advances to the next result record
NextIdx(i) == i + 1

\* app.py:109: the for loop's head: another record, or fall off the end
After(step, i, data) ==
    LET n == Successor(step) IN
    IF n = "loop" THEN (IF i < Len(data) THEN "download" ELSE "return")
    ELSE n

\* falling off the end of the try block returns normally to ask_user
Continue(step, i, data) ==
    LET n == After(step, i, data) IN
    IF n = "return" THEN pc' = "ask" /\ status' = "Done"
                    ELSE pc' = n /\ status' = status

----------------------------------------------------------------------------
(* The record of a run's steps *)

\* longest record kept (a run performs 4 + 2k steps, k <= MaxN)
MaxTrace == 2 * MaxN + 8

Event(op, i, ok, path) == [op |-> op, idx |-> i, ok |-> ok, path |-> path]

Log(t, e) == IF Len(t) < MaxTrace THEN Append(t, e) ELSE t

----------------------------------------------------------------------------
(* validate_environment (app.py:66-81) *)

NoneValue == "None"

\* Python truthiness of os.getenv's result: None and "" are falsy
Truthy(key) == key \notin {NoneValue, ""}

\* validation that forgets to compare the dimensions
ValidateOutcome_noSizeCheck(key, f) ==
    IF ~Truthy(key) THEN "no_key"
    ELSE IF ~(SrcPath \in DOMAIN f /\ MaskPath \in DOMAIN f) THEN "missing"
    ELSE IF f[SrcPath].kind # "image" \/ f[MaskPath].kind # "image"
         THEN "unreadable"
    ELSE "ok"

ValidateOutcome(key, f) ==
    IF ~Truthy(key) THEN "no_key"
    ELSE IF ~(SrcPath \in DOMAIN f /\ MaskPath \in DOMAIN f) THEN "missing"
    ELSE IF f[SrcPath].kind # "image" \/ f[MaskPath].kind # "image"
         THEN "unreadable"
    ELSE IF f[SrcPath].size # f[MaskPath].size THEN "size_mismatch"
    ELSE "ok"

ValidateError(out) ==
    IF out = "unreadable" THEN "UnidentifiedImageError" ELSE "ValueError"

\* check_and_create_folder (app.py:47-50), reached only past the first
\* two checks
FoldersAfterValidate(out, d) ==
    IF out \in {"no_key", "missing"} THEN d
    ELSE d \cup {config.rgba_folder_path, config.dest_folder_path}

Validate ==
    /\ pc = "validate"
    /\ LET out == ValidateOutcome(api_key, fs) IN
         /\ dirs' = FoldersAfterValidate(out, dirs)
         /\ trace' = Log(trace, Event("validate", 0, out = "ok", ""))
         /\ IF out = "ok" THEN Continue("validate", idx, images_data)
                          ELSE Abort(ValidateError(out))
    /\ UNCHANGED <<api_key, number_of_images, fs, answer, images_data, idx,
                   runs>>

----------------------------------------------------------------------------
(* convert_image_to_rgba (app.py:26-34) *)

Convert(step, input, output) ==
    /\ pc = step
    /\ \E outcome \in {"ok", "open_error", "save_error"} :
         \/ /\ outcome = "ok"
            /\ input \in DOMAIN fs /\ fs[input].kind = "image"
            /\ fs' = WriteFile(fs, output, ConvertRGBA(fs[input]))
            /\ trace' = Log(trace, Event(step, 0, TRUE, output))
            /\ Continue(step, idx, images_data)
         \/ /\ outcome = "open_error"
            /\ fs' = fs
            /\ trace' = Log(trace, Event(step, 0, FALSE, ""))
            /\ Abort("OSError")
         \/ /\ outcome = "save_error"
            /\ input \in DOMAIN fs /\ fs[input].kind = "image"
            /\ fs' = WriteFile(fs, output, Bytes(fs[input].content))
            /\ trace' = Log(trace, Event(step, 0, FALSE, output))
            /\ Abort("OSError")
    /\ UNCHANGED <<api_key, number_of_images, dirs, answer, images_data, idx,
                   runs>>

\* app.py:102
ConvertSrc == Convert("convert_src", SrcPath, RgbaSrcPath)

\* app.py:103
ConvertMask == Convert("convert_mask", MaskPath, RgbaMaskPath)

----------------------------------------------------------------------------
(* process_images_with_openai (app.py:52-64) *)

\* a request for one image more than configured
RequestedCount_plusOne(n) == n + 1

\* app.py:56: n=n, the configured number of variants
RequestedCount(n) == n

\* the edit API answers a request for n images with at most n records,
\* each holding the url of one generated image (of this run r)
Responses(r, n) ==
    { [i \in 1..k |-> [url |-> <<r, i>>]] : k \in 0..n }

Invoke ==
    /\ pc = "invoke"
    /\ \/ /\ RgbaSrcPath \in DOMAIN fs /\ RgbaMaskPath \in DOMAIN fs
          /\ \E data \in Responses(runs, RequestedCount(number_of_images)) :
               /\ images_data' = data
               /\ idx' = 0
               /\ trace' = Log(trace, Event("invoke", 0, TRUE, ""))
               /\ Continue("invoke", 0, data)
       \/ \* open() of a normalized file, the transport or the API fails
          /\ trace' = Log(trace, Event("invoke", 0, FALSE, ""))
          /\ Abort("OpenAIError")
          /\ UNCHANGED <<images_data, idx>>
    /\ UNCHANGED <<api_key, number_of_images, fs, dirs, answer, runs>>

----------------------------------------------------------------------------
(* download_and_save_image (app.py:36-45), called at app.py:110 *)

\* pixel sizes of the images the service generates
GeneratedSizes == { <<1024, 1024>>, <<2048, 1024>> }

\* what a GET of a result url may deliver with a success status
Bodies(url) ==
    { Img(s, "RGBA", url, FALSE) : s \in GeneratedSizes } \cup { Bytes(url) }

Download ==
    /\ pc = "download"
    /\ idx < Len(images_data)
    /\ LET url == images_data[idx + 1].url
           filename == OutputFilename
       IN \/ \E body \in Bodies(url) :
               /\ fs' = WriteFile(fs, filename, body)
               /\ trace' = Log(trace, Event("download", idx, TRUE, filename))
               /\ Continue("download", idx, images_data)
          \/ \* requests.get or raise_for_status raises: nothing is written
             /\ fs' = fs
             /\ trace' = Log(trace, Event("download", idx, FALSE, ""))
             /\ Abort("HTTPError")
          \/ \* the file is opened (truncated) and the write fails
             /\ fs' = WriteFile(fs, filename, Bytes(url))
             /\ trace' = Log(trace, Event("download", idx, FALSE, filename))
             /\ Abort("OSError")
    /\ UNCHANGED <<api_key, number_of_images, dirs, answer, images_data, idx,
                   runs>>

----------------------------------------------------------------------------
(* resize_image (app.py:83-91), called at app.py:114 *)

ResizeImage ==
    /\ pc = "resize"
    /\ LET filename == OutputFilename IN
       IF filename \in DOMAIN fs /\ fs[filename].kind = "image"
       THEN \/ /\ fs' = WriteFile(fs, filename,
                                  Resize(fs[filename], TargetSize))
               /\ trace' = Log(trace, Event("resize", idx, TRUE, filename))
               /\ idx' = NextIdx(idx)
               /\ Continue("resize", idx', images_data)
            \/ \* img.save fails part-way
               /\ fs' = WriteFile(fs, filename, Bytes(fs[filename].content))
               /\ trace' = Log(trace, Event("resize", idx, FALSE, filename))
               /\ idx' = idx
               /\ Abort("OSError")
       ELSE \* Image.open cannot read the downloaded bytes
            /\ fs' = fs
            /\ trace' = Log(trace, Event("resize", idx, FALSE, ""))
            /\ idx' = idx
            /\ Abort("UnidentifiedImageError")
    /\ UNCHANGED <<api_key, number_of_images, dirs, answer, images_data,
                   runs>>

----------------------------------------------------------------------------
(* ask_user (app.py:120-127) *)

\* app.py:123-124: 'y' calls image_processing, which starts with fresh
\* locals
AnswerYes ==
    /\ pc = "ask"
    /\ runs < MaxRuns
    /\ \E a \in Answers :
         /\ Normalize(a) = <<"y">>
         /\ answer' = a
    /\ pc' = "validate"
    /\ status' = "Running"
    /\ images_data' = <<>>
    /\ idx' = 0
    /\ trace' = <<>>
    /\ runs' = runs + 1
    /\ UNCHANGED <<api_key, number_of_images, fs, dirs>>

\* app.py:125-127: anything else prints the farewell and breaks the loop
AnswerOther ==
    /\ pc = "ask"
    /\ \E a \in Answers :
         /\ Normalize(a) # <<"y">>
         /\ answer' = a
    /\ pc' = "exited"
    /\ UNCHANGED <<api_key, number_of_images, fs, dirs, status, images_data,
                   idx, trace, runs>>

----------------------------------------------------------------------------
(* The program *)

Keys == {NoneValue, "", "sk-test"}

\* the contents of ./src before the program starts
SourceImages ==
    { Img(<<512, 512>>, "RGB", <<0, 1>>, FALSE),
      Img(<<256, 256>>, "L", <<0, 1>>, FALSE),
      Bytes(<<0, 1>>) }

MaskImages ==
    { Img(<<512, 512>>, "RGBA", <<0, 2>>, FALSE),
      Img(<<256, 256>>, "RGBA", <<0, 2>>, FALSE) }

InitialFiles ==
    { <<>> }
    \cup { (SrcPath :> s) : s \in SourceImages }
    \cup { (MaskPath :> m) : m \in MaskImages }
    \cup { (SrcPath :> s) @@ (MaskPath :> m) :
             s \in SourceImages, m \in MaskImages }

Init ==
    /\ api_key \in Keys
    /\ number_of_images \in 1..MaxN
    /\ fs \in InitialFiles
    /\ dirs \in { {config.src_folder_path},
                  {config.src_folder_path, config.rgba_folder_path,
                   config.dest_folder_path} }
    /\ pc = "ask"
    /\ answer = <<>>
    /\ status = "Idle"
    /\ images_data = <<>>
    /\ idx = 0
    /\ trace = <<>>
    /\ runs = 0

Pipeline ==
    Validate \/ ConvertSrc \/ ConvertMask \/ Invoke \/ Download \/ ResizeImage

Next == AnswerYes \/ AnswerOther \/ Pipeline

Spec == Init /\ [][Next]_vars

\* the single thread keeps running a started pipeline; nothing makes the
\* user answer the prompt
FairSpec == Spec /\ WF_vars(Pipeline)

----------------------------------------------------------------------------
(* Vocabulary of the properties *)

Terminal == {"Done", "Failed"}

StepPcs ==
    {"validate", "convert_src", "convert_mask", "invoke", "download",
     "resize"}

\* positions of the run's record at which step op was performed
Ops(op) == { j \in 1..Len(trace) : trace[j].op = op }

\* download+resize cycles the run has begun
Cycles == Cardinality(Ops("download"))

\* output files the run has created or overwritten
FilesWritten ==
    { trace[j].path : j \in { i \in Ops("download") : trace[i].path # "" } }

\* the destination file, as the specification names it
DestFile == "./dest/outputimage.png"

\* an answer made of whitespace around one letter y, in either case
YesShape(a) ==
    \E i \in 1..Len(a) :
        /\ a[i] \in {"y", "Y"}
        /\ \A j \in 1..Len(a) : j # i => a[j] \in {" ", "\t"}

\* no step of the run was performed twice
NoStepRepeated ==
    \A j, k \in 1..Len(trace) :
        j < k => <<trace[j].op, trace[j].idx>> # <<trace[k].op, trace[k].idx>>

\* the three reasons for which validation must fail, read off the state
ValidationMustFail ==
    \/ api_key \in {"None", ""}
    \/ "./src/src.png" \notin DOMAIN fs
    \/ "./src/mask.png" \notin DOMAIN fs
    \/ /\ fs["./src/src.png"].kind = "image"
       /\ fs["./src/mask.png"].kind = "image"
       /\ fs["./src/src.png"].size # fs["./src/mask.png"].size

----------------------------------------------------------------------------
(* C1 *)

\* C1: when validation fails for a missing or empty credential, a missing
\* source or mask file, or differing dimensions, the run ends Failed in that
\* very step: no file is written (neither a normalized copy nor anything in
\* the destination folder), no edit request and no download is made, and
\* the run's record holds the failed validation and nothing else.
C1_ValidationFailureAborts ==
    /\ [][ (pc = "validate" /\ ValidationMustFail) =>
             /\ pc' = "ask"
             /\ status' = "Failed"
             /\ fs' = fs
             /\ images_data' = images_data
             /\ trace' = <<[op |-> "validate", idx |-> 0, ok |-> FALSE,
                            path |-> ""]>> ]_vars
    /\ [](( /\ trace # <<>>
            /\ trace[1].op = "validate"
            /\ ~trace[1].ok )
          => Len(trace) = 1 /\ status = "Failed" /\ pc \in {"ask", "exited"})

\* a run that failed validation on mismatched dimensions alone
C1_Witness ==
    /\ status = "Failed"
    /\ Len(trace) = 1
    /\ api_key = "sk-test"
    /\ SrcPath \in DOMAIN fs /\ MaskPath \in DOMAIN fs
    /\ fs[SrcPath].kind = "image"
    /\ fs[SrcPath].size # fs[MaskPath].size
    /\ RgbaSrcPath \notin DOMAIN fs
    /\ DestFile \notin DOMAIN fs

----------------------------------------------------------------------------
(* C2 *)

\* C2 as stated: once a run has reached Done or Failed, no pipeline step is
\* ever executed again in this invocation.
C2_RunsAtMostOnce ==
    [][ (status \in Terminal) => (pc' \notin StepPcs) ]_vars

\* C2, amended: a finished run is not resumed or retried; after Done or
\* Failed the only steps are those of ask_user, which either exits or, on
\* an answer equal to 'y', starts a new run from validation with a fresh
\* record; and within one run no step is performed twice.
C2_RunsOncePerYes ==
    /\ [][ (status \in Terminal) =>
             /\ pc = "ask"
             /\ \/ /\ pc' = "exited"
                   /\ UNCHANGED <<fs, dirs, status, trace, runs>>
                \/ /\ pc' = "validate"
                   /\ YesShape(answer')
                   /\ status' = "Running"
                   /\ trace' = <<>>
                   /\ runs' = runs + 1
                   /\ fs' = fs ]_vars
    /\ []NoStepRepeated

\* a second run has been started after the first one finished, and has
\* itself finished
C2_Witness == runs = 2 /\ status = "Done" /\ pc = "ask"

----------------------------------------------------------------------------
(* C3 *)

\* C3: at the prompt, an answer that is not 'y' after trimming and
\* lower-casing ends the program and changes nothing else (no folder, no
\* file, no run state); an answer that is 'y' starts a run at validation;
\* a run starts from nowhere else, and nothing happens after the exit.
C3_PromptGatesRun ==
    /\ [][ (pc = "ask") =>
             IF YesShape(answer')
             THEN pc' = "validate" /\ status' = "Running"
             ELSE /\ pc' = "exited"
                  /\ UNCHANGED <<fs, dirs, status, images_data, idx, trace,
                                 runs>> ]_vars
    /\ [][ (pc' = "validate" /\ pc # "validate") =>
             pc = "ask" /\ YesShape(answer') ]_vars
    /\ [][ (pc # "exited") ]_vars

\* the program has exited on the answer "yes" without having run anything
C3_Witness ==
    /\ pc = "exited"
    /\ answer = <<"y", "e", "s">>
    /\ runs = 0
    /\ status = "Idle"
    /\ trace = <<>>
    /\ fs \in InitialFiles

----------------------------------------------------------------------------
(* C4 *)

\* C4 as stated: a run begins at most N download+resize cycles, and with
\* N = 1 a completed run results in exactly one output file.
C4_ExactlyOneFileWhenNIsOne ==
    /\ Cycles <= number_of_images
    /\ (number_of_images = 1 /\ status = "Done")
         => Cardinality(FilesWritten) = 1

\* C4, amended: a run begins at most N download+resize cycles; with N = 1
\* at most one output file results, and exactly one (outputimage.png) when
\* the run reaches Done and the API returned a result record.
C4_AtMostNCycles ==
    /\ Cycles <= number_of_images
    /\ number_of_images = 1 =>
         /\ Cardinality(FilesWritten) <= 1
         /\ (status = "Done" /\ Len(images_data) = 1)
              => FilesWritten = {DestFile}

\* a completed run with N = 1 and its single cycle
C4_Witness ==
    /\ number_of_images = 1
    /\ status = "Done"
    /\ Cycles = 1
    /\ FilesWritten = {DestFile}

----------------------------------------------------------------------------
(* C5 *)

\* C5: when a run in which every step succeeded and the API returned at
\* least one result reaches Done, dest/outputimage.png exists and is an
\* image of exactly 2048x1024 pixels.
C5_OutputIs2048x1024 ==
    (status = "Done" /\ Len(images_data) >= 1) =>
        /\ DestFile \in DOMAIN fs
        /\ fs[DestFile].kind = "image"
        /\ fs[DestFile].size = <<2048, 1024>>

\* a completed run from a 512x512 RGB source and a 512x512 RGBA mask
C5_Witness ==
    /\ status = "Done"
    /\ Len(images_data) = 1
    /\ fs[SrcPath].size = <<512, 512>> /\ fs[SrcPath].mode = "RGB"
    /\ fs[MaskPath].size = <<512, 512>>
    /\ fs[DestFile].size = <<2048, 1024>>

----------------------------------------------------------------------------
(* C6 *)

\* C6: a failure of any step is the last thing its run does: the failed
\* step is the final entry of the run's record, the run is Failed and
\* control is back in ask_user (at the prompt, or past it); no exception
\* ever leaves image_processing; and a run is Failed only through a
\* failed step.
C6_FailureAbortsAndIsCaught ==
    /\ pc # "crashed"
    /\ \A j \in 1..Len(trace) :
         ~trace[j].ok =>
            /\ j = Len(trace)
            /\ status = "Failed"
            /\ pc \in {"ask", "exited"}
    /\ status = "Failed" => (trace # <<>> /\ ~trace[Len(trace)].ok)

\* a run that failed in the resize of its second result and returned to
\* the prompt
C6_Witness ==
    /\ status = "Failed"
    /\ pc = "ask"
    /\ trace # <<>>
    /\ trace[Len(trace)].op = "resize"
    /\ trace[Len(trace)].idx = 1
    /\ ~trace[Len(trace)].ok

----------------------------------------------------------------------------
(* C7 *)

\* C7: every download and resize of a run writes dest/outputimage.png and
\* no other path; the download of a later result finds there the resized
\* previous result and overwrites it; and when a run with k >= 1 results
\* reaches Done it has produced that one file, holding the resized k-th
\* result.
C7_LastResultWins ==
    /\ \A j \in Ops("download") \cup Ops("resize") :
         trace[j].path \in {"", DestFile}
    /\ (pc = "download" /\ idx >= 1) =>
         /\ DestFile \in DOMAIN fs
         /\ fs[DestFile].content = images_data[idx].url
         /\ fs[DestFile].stretched
    /\ (status = "Done" /\ Len(images_data) >= 1) =>
         /\ FilesWritten = {DestFile}
         /\ fs[DestFile].content = images_data[Len(images_data)].url
         /\ fs[DestFile].stretched

\* a completed run of two results: the file holds the second
C7_Witness ==
    /\ status = "Done"
    /\ Len(images_data) = 2
    /\ Cycles = 2
    /\ fs[DestFile].content = images_data[2].url
    /\ fs[DestFile].content # images_data[1].url

----------------------------------------------------------------------------
(* C8 *)

\* the step at position j of the record is the one the linear order allows
InOrder(j) ==
    LET e == trace[j] IN
    CASE e.op = "validate"     -> j = 1
      [] e.op = "convert_src"  ->
            j = 2 /\ trace[1].op = "validate" /\ trace[1].ok
      [] e.op = "convert_mask" ->
            j = 3 /\ trace[2].op = "convert_src" /\ trace[2].ok
      [] e.op = "invoke"       ->
            j = 4 /\ trace[3].op = "convert_mask" /\ trace[3].ok
      [] e.op = "download"     ->
            /\ j = 5 + 2 * e.idx
            /\ trace[4].op = "invoke" /\ trace[4].ok
            /\ e.idx >= 1 =>
                 /\ trace[j - 1].op = "resize"
                 /\ trace[j - 1].idx = e.idx - 1
                 /\ trace[j - 1].ok
      [] e.op = "resize"       ->
            /\ trace[j - 1].op = "download"
            /\ trace[j - 1].idx = e.idx
            /\ trace[j - 1].ok
      [] OTHER -> FALSE

\* C8: the steps of a run occur in the linear order validate, normalize
\* source, normalize mask, edit request, then download and resize
\* alternating result by result, each step only after the previous one
\* succeeded; and the step about to run is the one that order allows.
C8_LinearOrder ==
    /\ \A j \in 1..Len(trace) : InOrder(j)
    /\ pc \in StepPcs =>
         /\ \A j \in 1..Len(trace) : trace[j].ok
         /\ pc = "validate"     => trace = <<>>
         /\ pc = "convert_src"  => Len(trace) = 1
         /\ pc = "convert_mask" => Len(trace) = 2
         /\ pc = "invoke"       => Len(trace) = 3
         /\ pc = "download"     => Len(trace) = 4 + 2 * idx
         /\ pc = "resize"       => Len(trace) = 5 + 2 * idx

\* the second download of a run is about to start, after the first resize
C8_Witness ==
    /\ pc = "download"
    /\ idx = 1
    /\ Len(trace) = 6
    /\ trace[5].op = "download"
    /\ trace[6].op = "resize"

----------------------------------------------------------------------------
(* C9 *)

\* C9 as stated: once dest/outputimage.png has been written by a download
\* and overwritten by the following resize, it is never written again.
C9_NeverWrittenAgain ==
    [][ (DestFile \in DOMAIN fs /\ fs[DestFile].stretched) =>
            (fs'[DestFile] = fs[DestFile]) ]_vars

\* C9, amended: once dest/outputimage.png has been written by a download
\* and overwritten by the following resize, it is written again only by a
\* download (of the next result of the same run, or of a run started by a
\* later 'y' answer), never by a second resize: each resize works on a file
\* fresh from its download.
C9_RewrittenOnlyByDownload ==
    /\ [][ ( /\ DestFile \in DOMAIN fs
             /\ fs[DestFile].stretched
             /\ fs'[DestFile] # fs[DestFile] ) =>
             ( /\ pc = "download"
               /\ fs'[DestFile].content = images_data[idx + 1].url
               /\ ~fs'[DestFile].stretched ) ]_vars
    /\ []((pc = "resize") =>
            (DestFile \in DOMAIN fs /\ ~fs[DestFile].stretched))

\* the first result was downloaded and resized, and the download of the
\* second result has just overwritten it
C9_Witness ==
    /\ pc = "resize"
    /\ idx = 1
    /\ trace[6].op = "resize" /\ trace[6].ok
    /\ DestFile \in DOMAIN fs
    /\ fs[DestFile].content = images_data[2].url
    /\ ~fs[DestFile].stretched

----------------------------------------------------------------------------
(* C10 *)

\* C10: with the thread kept running, every started run reaches Done or
\* Failed; the loop begins at most one cycle per result record returned,
\* and a run that reaches Done has begun exactly one per record.
C10_RunTerminates ==
    /\ (status = "Running") ~> (status \in Terminal)
    /\ [](Cycles <= Len(images_data))
    /\ [](status = "Done" => Cycles = Len(images_data))

\* a run that went through as many cycles as records were returned, the
\* request having returned fewer than asked for
C10_Witness ==
    /\ status = "Done"
    /\ number_of_images = 2
    /\ Len(images_data) = 1
    /\ Cycles = 1
    /\ Len(trace) = 6

====
